---- MODULE Spec2Model ----
(***************************************************************************)
(* A model of freq_enc.py: the frequency-rank encoder freq_enc, the        *)
(* aggregation loop write_aggregated_files and the train/valid/test split  *)
(* of fairseq_data.                                                        *)
(*                                                                         *)
(* A Python str is a sequence of one-character strings; a dict is a        *)
(* function; a list is a sequence.  List indices of the source are         *)
(* 0-based, sequence positions here are 1-based: a 0-based index i is      *)
(* position i + 1.                                                         *)
(***************************************************************************)
EXTENDS Integers, Sequences, FiniteSets, TLC

VARIABLES
    \* freq_enc: its argument, where the call stands, its locals, its result
    text, pc, tokens, counts, first_occurrence_order, char_rank_data,
    char_to_rank_id, encoded_list, result, exc,
    \* an observer's note of one earlier call of freq_enc: <<input, output>>
    memo,
    \* write_aggregated_files: its argument, the loop position, the two
    \* files, the warnings printed (by every call made so far)
    file_list, pos, f_cipher, f_plain, wpc, warnings,
    \* fairseq_data: the directory listing and what each name of it holds,
    \* its argument, its lists, the calls it has made, the output directory
    listing, contents, validation_split, all_train_files, test_files,
    valid_files, train_files, fpc, calls, output_dir

encVars == <<text, pc, tokens, counts, first_occurrence_order, char_rank_data,
             char_to_rank_id, encoded_list, result, exc, memo>>
pipeVars == <<file_list, pos, f_cipher, f_plain, wpc, warnings>>
splitVars == <<listing, contents, validation_split, all_train_files,
               test_files, valid_files, train_files, fpc, calls, output_dir>>
vars == <<encVars, pipeVars, splitVars>>

----------------------------------------------------------------------------
(* Bounds of the checked inputs.                                           *)

\* longest input of freq_enc drawn character by character
MaxLen == 4
\* most tokens of an input of freq_enc drawn token by token
MaxTokens == 5
\* most distinct tokens of the inputs that reach two-digit ranks
MaxRamp == 11
\* most tokens of an input of freq_enc in the runs of several calls
MaxCallTokens == 2
\* longest file list of write_aggregated_files
MaxFiles == 2
\* most names in the input directory of fairseq_data
MaxDirFiles == 3

----------------------------------------------------------------------------
(* Strings.                                                                *)

Range(s) == {s[i] : i \in DOMAIN s}

\* The empty dict (and the empty list, and the empty str).
EmptyDict == <<>>

\* d[k] = v of a dict.
DictSet(d, k, v) == [x \in DOMAIN d \cup {k} |-> IF x = k THEN v ELSE d[x]]

\* The characters str.split() takes for whitespace, among those written here.
Whitespace == {" ", "\t", "\n", "\r", "\f"}

Digits == <<"0", "1", "2", "3", "4", "5", "6", "7", "8", "9">>

\* ord(c) of the characters the inputs are made of.
Ord(c) ==
    CASE c = "\t" -> 9 [] c = "\n" -> 10 [] c = "\f" -> 12 [] c = "\r" -> 13
      [] c = " " -> 32
      [] c = "0" -> 48 [] c = "1" -> 49 [] c = "2" -> 50 [] c = "3" -> 51
      [] c = "4" -> 52 [] c = "5" -> 53 [] c = "6" -> 54 [] c = "7" -> 55
      [] c = "8" -> 56 [] c = "9" -> 57
      [] c = "a" -> 97 [] c = "b" -> 98

\* a < b of two str: lexicographic by code point.
RECURSIVE str_lt(_, _)
str_lt(a, b) ==
    IF b = <<>> THEN FALSE
    ELSE IF a = <<>> THEN TRUE
    ELSE IF a[1] # b[1] THEN Ord(a[1]) < Ord(b[1])
    ELSE str_lt(Tail(a), Tail(b))

\* How two str compare: as Python compares them ("lt"), or the other way
\* round ("gt"), which no str does and which is there to compare sort outcomes.
token_lt(a, b, cmp) == IF cmp = "gt" THEN str_lt(b, a) ELSE str_lt(a, b)

\* str(n) of an int n >= 0.
RECURSIVE str(_)
str(n) == IF n < 10 THEN <<Digits[n + 1]>>
          ELSE str(n \div 10) \o <<Digits[(n % 10) + 1]>>

\* sep.join(parts)
RECURSIVE join(_, _)
join(sep, parts) ==
    IF parts = <<>> THEN <<>>
    ELSE IF Len(parts) = 1 THEN parts[1]
    ELSE parts[1] \o sep \o join(sep, Tail(parts))

\* text.split(): the maximal runs of non-whitespace characters, in order.
RECURSIVE split_from(_, _, _, _)
split_from(s, i, cur, acc) ==
    IF i > Len(s) THEN (IF cur = <<>> THEN acc ELSE Append(acc, cur))
    ELSE IF s[i] \in Whitespace
         THEN split_from(s, i + 1, <<>>,
                         IF cur = <<>> THEN acc ELSE Append(acc, cur))
         ELSE split_from(s, i + 1, Append(cur, s[i]), acc)

split(s) == split_from(s, 1, <<>>, <<>>)

----------------------------------------------------------------------------
(* freq_enc.                                                               *)

\* Counter(tokens): the count of every distinct token.
RECURSIVE Counter_from(_, _, _)
Counter_from(toks, i, acc) ==
    IF i > Len(toks) THEN acc
    ELSE Counter_from(toks, i + 1,
            DictSet(acc, toks[i],
                    IF toks[i] \in DOMAIN acc THEN acc[toks[i]] + 1 ELSE 1))

Counter(toks) == Counter_from(toks, 1, EmptyDict)

\* The keys of Counter(tokens) in the order items() yields them: the order
\* in which the keys were first inserted.
RECURSIVE keys_from(_, _, _)
keys_from(toks, i, acc) ==
    IF i > Len(toks) THEN acc
    ELSE keys_from(toks, i + 1,
            IF toks[i] \in Range(acc) THEN acc ELSE Append(acc, toks[i]))

keys(toks) == keys_from(toks, 1, <<>>)

\* {token: i for i, token in enumerate(tokens) if token not in tokens[:i]}
RECURSIVE first_occurrence_from(_, _, _)
first_occurrence_from(toks, p, acc) ==
    IF p > Len(toks) THEN acc
    ELSE first_occurrence_from(toks, p + 1,
            IF toks[p] \notin Range(SubSeq(toks, 1, p - 1))
            THEN DictSet(acc, toks[p], p - 1) ELSE acc)

\* A slip in the slice bound: token not in tokens[:i + 1], which no token
\* satisfies.
first_occurrence_wrong_slice(toks) == EmptyDict

\* Every token given index 0.
first_occurrence_zero(toks) == [t \in Range(toks) |-> 0]

first_occurrence(toks) == first_occurrence_from(toks, 1, EmptyDict)

\* Whether line 29 finds every key of counts in first_occurrence_order.
rank_data_ok(cnt, first) == DOMAIN cnt \subseteq DOMAIN first

\* The list char_rank_data of lines 27-29, before it is sorted.
rank_data(order, cnt, first) ==
    [k \in DOMAIN order |-> <<0 - cnt[order[k]], first[order[k]], order[k]>>]

\* Ascending by count instead of descending.
tuple_lt_by_count_up(a, b, cmp) ==
    \/ a[1] > b[1]
    \/ a[1] = b[1] /\ a[2] < b[2]
    \/ a[1] = b[1] /\ a[2] = b[2] /\ token_lt(a[3], b[3], cmp)

\* a < b of two tuples (int, int, str), the third components compared by
\* token_lt under cmp.
tuple_lt(a, b, cmp) ==
    \/ a[1] < b[1]
    \/ a[1] = b[1] /\ a[2] < b[2]
    \/ a[1] = b[1] /\ a[2] = b[2] /\ token_lt(a[3], b[3], cmp)

\* list.sort(), which is stable: x goes before the first element greater
\* than it.
RECURSIVE insert_sorted(_, _, _)
insert_sorted(sorted, x, cmp) ==
    IF sorted = <<>> THEN <<x>>
    ELSE IF tuple_lt(x, sorted[1], cmp) THEN <<x>> \o sorted
    ELSE <<sorted[1]>> \o insert_sorted(Tail(sorted), x, cmp)

RECURSIVE sort_from(_, _, _, _)
sort_from(data, i, acc, cmp) ==
    IF i > Len(data) THEN acc
    ELSE sort_from(data, i + 1, insert_sorted(acc, data[i], cmp), cmp)

sort_with(data, cmp) == sort_from(data, 1, <<>>, cmp)

sort(data) == sort_with(data, "lt")

\* enumerate() counting from 1.
rank_table_from_one(sorted) ==
    [t \in {sorted[k][3] : k \in DOMAIN sorted} |->
        CHOOSE k \in DOMAIN sorted : sorted[k][3] = t]

\* A table kept from call to call: a token ranked by an earlier call keeps
\* that rank.
rank_table_kept(sorted) ==
    [t \in {sorted[k][3] : k \in DOMAIN sorted} |->
        IF t \in DOMAIN char_to_rank_id THEN char_to_rank_id[t]
        ELSE (CHOOSE k \in DOMAIN sorted : sorted[k][3] = t) - 1]

\* Lines 32-34: char_to_rank_id[token] = rank_id over enumerate(sorted).
RECURSIVE rank_table_from(_, _, _)
rank_table_from(sorted, k, acc) ==
    IF k > Len(sorted) THEN acc
    ELSE rank_table_from(sorted, k + 1, DictSet(acc, sorted[k][3], k - 1))

rank_table(sorted) == rank_table_from(sorted, 1, EmptyDict)

\* Whether line 36 finds every token in char_to_rank_id.
encode_ok(toks, table) == Range(toks) \subseteq DOMAIN table

\* One entry per distinct token instead of one per token.
encode_distinct(toks, table) == [i \in DOMAIN keys(toks) |-> str(table[keys(toks)[i]])]

\* Line 36: [str(char_to_rank_id[token]) for token in tokens]
encode(toks, table) == [i \in DOMAIN toks |-> str(table[toks[i]])]

\* The whole of freq_enc: its locals as the call leaves them, what it
\* returns (ret) and the exception it ends in (exc, "none" when it returns).
freq_enc_run(t) ==
    LET toks == split(t)
        unset == [tokens |-> toks, counts |-> EmptyDict,
                  first_occurrence_order |-> EmptyDict,
                  char_rank_data |-> <<>>, char_to_rank_id |-> EmptyDict,
                  encoded_list |-> <<>>, ret |-> <<>>, exc |-> "none"]
    IN  IF toks = <<>> THEN unset
        ELSE
        LET cnt == Counter(toks)
            first == first_occurrence(toks)
        IN  IF ~rank_data_ok(cnt, first)
            THEN [unset EXCEPT !.counts = cnt,
                               !.first_occurrence_order = first,
                               !.exc = "KeyError"]
            ELSE
            LET sorted == sort(rank_data(keys(toks), cnt, first))
                table == rank_table(sorted)
            IN  IF ~encode_ok(toks, table)
                THEN [unset EXCEPT !.counts = cnt,
                                   !.first_occurrence_order = first,
                                   !.char_rank_data = sorted,
                                   !.char_to_rank_id = table,
                                   !.exc = "KeyError"]
                ELSE
                LET enc == encode(toks, table)
                IN  [tokens |-> toks, counts |-> cnt,
                     first_occurrence_order |-> first,
                     char_rank_data |-> sorted, char_to_rank_id |-> table,
                     encoded_list |-> enc, ret |-> join(<<" ">>, enc),
                     exc |-> "none"]

\* freq_enc(text) as its callers see it.
freq_enc(t) == freq_enc_run(t).ret

----------------------------------------------------------------------------
(* The inputs of freq_enc that are checked.                                *)

\* All sequences over S of length at most n.
SeqsUpTo(S, n) == UNION {[1..k -> S] : k \in 0..n}

\* Characters of the inputs drawn character by character.
Chars == {"1", "2", " ", "\n"}

\* Tokens of the inputs drawn token by token.
Vocab == {<<"5">>, <<"1", "4">>, <<"1", "5", "0">>, <<"2", "7", "3">>}

CharTexts == SeqsUpTo(Chars, MaxLen)

TokenTexts == {join(<<" ">>, ts) : ts \in SeqsUpTo(Vocab, MaxTokens)}

\* "0 1 ... n-1 r": n distinct tokens, the token r twice.
Ramp(n, r) ==
    join(<<" ">>, [k \in 1..(n + 1) |-> IF k <= n THEN str(k - 1) ELSE str(r)])

RampTexts == UNION {{Ramp(n, r) : r \in {0, n - 1}} : n \in 1..MaxRamp}

Texts == CharTexts \cup TokenTexts \cup RampTexts

\* Inputs of the runs of several calls.
CallTexts ==
    {join(<<" ">>, ts) : ts \in SeqsUpTo({<<"1">>, <<"2">>}, MaxCallTokens)}

NoCall == [input |-> <<>>, output |-> <<>>, between |-> FALSE, set |-> FALSE]

----------------------------------------------------------------------------
(* The state machine of freq_enc.                                          *)

EncIdle ==
    /\ text = <<>> /\ pc = "idle" /\ tokens = <<>> /\ counts = EmptyDict
    /\ first_occurrence_order = EmptyDict /\ char_rank_data = <<>>
    /\ char_to_rank_id = EmptyDict /\ encoded_list = <<>> /\ result = <<>>
    /\ exc = "none" /\ memo = NoCall

PipeIdle ==
    /\ file_list = <<>> /\ pos = 0 /\ f_cipher = <<>> /\ f_plain = <<>>
    /\ wpc = "idle" /\ warnings = <<>>

SplitIdle ==
    /\ listing = <<>> /\ contents = <<>>
    /\ validation_split = [num |-> 0, den |-> 1]
    /\ all_train_files = <<>> /\ test_files = <<>> /\ valid_files = <<>>
    /\ train_files = <<>> /\ fpc = "idle" /\ calls = <<>>
    /\ output_dir = <<>>

\* freq_enc is about to be called on text.
EncReady(inputs) ==
    /\ text \in inputs /\ pc = "ready" /\ tokens = <<>> /\ counts = EmptyDict
    /\ first_occurrence_order = EmptyDict /\ char_rank_data = <<>>
    /\ char_to_rank_id = EmptyDict /\ encoded_list = <<>> /\ result = <<>>
    /\ exc = "none" /\ memo = NoCall

InitEnc == EncReady(Texts) /\ PipeIdle /\ SplitIdle

InitCalls == EncReady(CallTexts) /\ PipeIdle /\ SplitIdle

\* One call of freq_enc(text), lines 16-37.
Call ==
    /\ pc = "ready"
    /\ LET r == freq_enc_run(text)
       IN  /\ tokens' = r.tokens
           /\ counts' = r.counts
           /\ first_occurrence_order' = r.first_occurrence_order
           /\ char_rank_data' = r.char_rank_data
           /\ char_to_rank_id' = r.char_to_rank_id
           /\ encoded_list' = r.encoded_list
           /\ result' = r.ret
           /\ exc' = r.exc
           /\ pc' = IF r.exc = "none" THEN "returned" ELSE "raised"
    /\ UNCHANGED <<text, memo, pipeVars, splitVars>>

\* The caller goes on to its next call, on t.  The observer may note the
\* call that just returned, or keeps its note and marks that another input
\* was encoded since.
NextCall ==
    /\ pc = "returned"
    /\ \E t \in CallTexts : text' = t
    /\ pc' = "ready"
    /\ \/ memo' = [input |-> text, output |-> result, between |-> FALSE,
                   set |-> TRUE]
       \/ memo' = IF memo.set /\ text # memo.input
                  THEN [memo EXCEPT !.between = TRUE] ELSE memo
    /\ UNCHANGED <<tokens, counts, first_occurrence_order, char_rank_data,
                   char_to_rank_id, encoded_list, result, exc, pipeVars,
                   splitVars>>

NextEnc == Call

NextCalls == Call \/ NextCall

\* One call of freq_enc on any of the inputs.
Spec == InitEnc /\ [][NextEnc]_vars

\* Any sequence of calls of freq_enc.
SpecCalls == InitCalls /\ [][NextCalls]_vars

----------------------------------------------------------------------------
(* write_aggregated_files.                                                 *)
(*                                                                         *)
(* file_list is the list of the paths, each given as what the file at the  *)
(* path holds.  A parsed JSON value is [type, value]: a str holds its      *)
(* characters, a dict its members <<key, value>> in the order of the       *)
(* file, an int, a None and a list hold nothing that is read.  An output   *)
(* file is the sequence of the strings written to it, each with the        *)
(* 1-based position in file_list of the record it was written for.         *)

JStr(s) == [type |-> "str", value |-> s]
JInt == [type |-> "int", value |-> <<>>]
JNone == [type |-> "NoneType", value |-> <<>>]
JList == [type |-> "list", value |-> <<>>]
JDict(members) == [type |-> "dict", value |-> members]

\* What a path of file_list can hold.
Missing == [kind |-> "missing", data |-> JNone]
Undecodable == [kind |-> "undecodable", data |-> JNone]
Malformed == [kind |-> "malformed", data |-> JNone]
Json(v) == [kind |-> "json", data |-> v]

CipherValues == {JStr(<<"2", " ", "1", " ", "2">>), JStr(<<>>), JInt}

PlainValues == {JStr(<<"a", "b">>), JStr(<<"a", "\n">>), JStr(<<>>), JInt}

Members(key, values) == {<<>>} \cup {<<<<key, v>>>> : v \in values}

Documents ==
    {JDict(c \o q) : c \in Members("ciphertext", CipherValues),
                     q \in Members("plaintext", PlainValues)}
        \cup {JList, JNone, JStr(<<"a">>)}

FileContents == {Missing, Undecodable, Malformed} \cup {Json(d) : d \in Documents}

\* key in data, for a dict data.
has_key(data, key) == \E m \in DOMAIN data.value : data.value[m][1] = key

\* data[key] of a dict data that has the key: the last member of that name.
getitem(data, key) ==
    LET m == CHOOSE k \in DOMAIN data.value :
                /\ data.value[k][1] = key
                /\ \A j \in DOMAIN data.value : data.value[j][1] = key => j <= k
    IN  data.value[m][2]

\* The exception of data[key], "none" when it yields a value.
getitem_exc(data, key) ==
    IF data.type # "dict" THEN "TypeError"
    ELSE IF ~has_key(data, key) THEN "KeyError"
    ELSE "none"

\* list(plaintext) of a str: its characters, each a str.
chars_of(s) == [i \in DOMAIN s |-> <<s[i]>>]

\* What one turn of the loop, on the record at position i holding content,
\* does: the strings it writes to f_cipher and to f_plain, the exception
\* the try block ends in and whether an except clause catches it.
no_effect(e, c) == [cipher |-> <<>>, plain |-> <<>>, exc |-> e, caught |-> c]

\* Lines 104-105 moved before line 102: the encoding is written as soon as
\* the ciphertext is read.
process_record_write_early(content, i) ==
    IF content.kind = "missing" THEN no_effect("FileNotFoundError", FALSE)
    ELSE IF content.kind = "undecodable" THEN no_effect("UnicodeDecodeError", FALSE)
    ELSE IF content.kind = "malformed" THEN no_effect("JSONDecodeError", TRUE)
    ELSE
    LET data == content.data
    IN  IF getitem_exc(data, "ciphertext") # "none"
        THEN no_effect(getitem_exc(data, "ciphertext"),
                       getitem_exc(data, "ciphertext") = "KeyError")
        ELSE
        LET ciphertext == getitem(data, "ciphertext")
        IN  IF ciphertext.type # "str" THEN no_effect("AttributeError", FALSE)
            ELSE
            LET written == <<[rec |-> i,
                              data |-> freq_enc(ciphertext.value) \o <<"\n">>]>>
            IN  IF getitem_exc(data, "plaintext") # "none"
                THEN [cipher |-> written, plain |-> <<>>,
                      exc |-> "KeyError", caught |-> TRUE]
                ELSE
                LET plaintext == getitem(data, "plaintext")
                IN  IF plaintext.type # "str"
                    THEN [cipher |-> written, plain |-> <<>>,
                          exc |-> "TypeError", caught |-> FALSE]
                    ELSE [cipher |-> written,
                          plain |-> <<[rec |-> i,
                                       data |-> join(<<" ">>, chars_of(plaintext.value))
                                                   \o <<"\n">>]>>,
                          exc |-> "none", caught |-> FALSE]

\* Lines 97-113.
process_record(content, i) ==
    \* line 98: open(file_path, 'r', encoding='utf-8')
    IF content.kind = "missing" THEN no_effect("FileNotFoundError", FALSE)
    \* line 99: json.load(f)
    ELSE IF content.kind = "undecodable" THEN no_effect("UnicodeDecodeError", FALSE)
    ELSE IF content.kind = "malformed" THEN no_effect("JSONDecodeError", TRUE)
    ELSE
    LET data == content.data
    IN  \* line 101: data['ciphertext']
        IF getitem_exc(data, "ciphertext") # "none"
        THEN no_effect(getitem_exc(data, "ciphertext"),
                       getitem_exc(data, "ciphertext") = "KeyError")
        \* line 102: data['plaintext']
        ELSE IF getitem_exc(data, "plaintext") # "none"
        THEN no_effect("KeyError", TRUE)
        ELSE
        LET ciphertext == getitem(data, "ciphertext")
            plaintext == getitem(data, "plaintext")
        IN  \* line 104: freq_enc(ciphertext) starts with ciphertext.split()
            IF ciphertext.type # "str" THEN no_effect("AttributeError", FALSE)
            ELSE
            \* line 105: f_cipher.write(freq_encoding + '\n')
            LET written == <<[rec |-> i,
                              data |-> freq_enc(ciphertext.value) \o <<"\n">>]>>
            IN  \* line 107: list(plaintext) of an int
                IF plaintext.type # "str"
                THEN [cipher |-> written, plain |-> <<>>,
                      exc |-> "TypeError", caught |-> FALSE]
                \* line 108: f_plain.write(spaced_plain + '\n')
                ELSE [cipher |-> written,
                      plain |-> <<[rec |-> i,
                                   data |-> join(<<" ">>, chars_of(plaintext.value))
                                               \o <<"\n">>]>>,
                      exc |-> "none", caught |-> FALSE]

\* What one turn of the loop makes of the run so far: the files with what
\* the turn wrote, the warning of a caught exception, and the exception
\* that ends the run when no clause catches it ("none" otherwise).
turn(run, content, i) ==
    LET r == process_record(content, i)
    IN  [f_cipher |-> run.f_cipher \o r.cipher,
         f_plain |-> run.f_plain \o r.plain,
         warnings |-> IF r.caught
                      THEN Append(run.warnings, [rec |-> i, exc |-> r.exc])
                      ELSE run.warnings,
         exc |-> IF r.exc = "none" \/ r.caught THEN "none" ELSE r.exc]

\* A whole run of write_aggregated_files on the files holding held, lines
\* 93-113: both files opened empty, the loop until the list is through
\* or an exception leaves it.
RECURSIVE write_aggregated_from(_, _, _)
write_aggregated_from(held, i, run) ==
    IF i > Len(held) \/ run.exc # "none" THEN run
    ELSE write_aggregated_from(held, i + 1, turn(run, held[i], i))

write_aggregated_files(held) ==
    write_aggregated_from(held, 1,
        [f_cipher |-> <<>>, f_plain |-> <<>>, warnings |-> <<>>, exc |-> "none"])

\* write_aggregated_files has opened (and emptied) both files and is at
\* the head of its loop.
PipeStart ==
    /\ file_list \in SeqsUpTo(FileContents, MaxFiles)
    /\ pos = 0 /\ f_cipher = <<>> /\ f_plain = <<>>
    /\ wpc = "loop" /\ warnings = <<>>

InitPipe == EncIdle /\ PipeStart /\ SplitIdle

\* One turn of the loop of line 96, on the next record: the try block and
\* its except clauses.  An exception no clause catches leaves the function.
Iterate ==
    /\ wpc = "loop"
    /\ pos < Len(file_list)
    /\ LET r == turn([f_cipher |-> f_cipher, f_plain |-> f_plain,
                      warnings |-> warnings, exc |-> "none"],
                     file_list[pos + 1], pos + 1)
       IN  /\ f_cipher' = r.f_cipher
           /\ f_plain' = r.f_plain
           /\ warnings' = r.warnings
           /\ wpc' = IF r.exc = "none" THEN "loop" ELSE "raised"
           /\ pos' = pos + 1
    /\ UNCHANGED <<file_list, encVars, splitVars>>

\* The loop is through file_list: the with block closes both files.
Finish ==
    /\ wpc = "loop"
    /\ pos = Len(file_list)
    /\ wpc' = "done"
    /\ UNCHANGED <<file_list, pos, f_cipher, f_plain, warnings, encVars,
                   splitVars>>

NextPipe == Iterate \/ Finish

\* One run of write_aggregated_files on any file list.
SpecPipe == InitPipe /\ [][NextPipe]_vars

----------------------------------------------------------------------------
(* fairseq_data.                                                           *)
(*                                                                         *)
(* listing is what os.listdir(input_data_dir) returns: the names of the    *)
(* directory, each once, in any order.  validation_split is the fraction   *)
(* num / den.                                                              *)

TestPrefix == <<"t", "e", "s", "t", "-", "c", "i", "p", "h", "e", "r", "-">>

JsonSuffix == <<".", "j", "s", "o", "n">>

input_data_dir == <<"i", "n">>

\* filename.startswith(prefix)
startswith(name, prefix) ==
    Len(name) >= Len(prefix) /\ SubSeq(name, 1, Len(prefix)) = prefix

\* filename.endswith(suffix)
endswith(name, suffix) ==
    /\ Len(name) >= Len(suffix)
    /\ SubSeq(name, Len(name) - Len(suffix) + 1, Len(name)) = suffix

\* os.path.join(dir, filename) of a relative filename.
path_join(dir, name) == dir \o <<"/">> \o name

\* int(x) of the fraction p / den, den > 0: towards zero.
int_trunc(p, den) == IF p >= 0 THEN p \div den ELSE 0 - ((0 - p) \div den)

\* The list position a slice bound k stands for in a list of n elements.
slice_bound(n, k) ==
    IF k < 0 THEN (IF n + k < 0 THEN 0 ELSE n + k)
    ELSE IF k > n THEN n ELSE k

\* l[:k]
slice_to(l, k) == SubSeq(l, 1, slice_bound(Len(l), k))

\* l[k + 1:], a slip that drops the file at the split index.
slice_from_next(l, k) == SubSeq(l, slice_bound(Len(l), k) + 2, Len(l))

\* l[k:]
slice_from(l, k) == SubSeq(l, slice_bound(Len(l), k) + 1, Len(l))

\* Lines 47-57: the paths of the '.json' names, those that start with
\* 'test-cipher-' apart from the others, in the order of the listing.
RECURSIVE scan_from(_, _, _, _)
scan_from(names, i, train, test) ==
    IF i > Len(names) THEN [all_train_files |-> train, test_files |-> test]
    ELSE IF endswith(names[i], JsonSuffix)
         THEN IF startswith(names[i], TestPrefix)
              THEN scan_from(names, i + 1, train,
                             Append(test, path_join(input_data_dir, names[i])))
              ELSE scan_from(names, i + 1,
                             Append(train, path_join(input_data_dir, names[i])),
                             test)
         ELSE scan_from(names, i + 1, train, test)

scan(names) == scan_from(names, 1, <<>>, <<>>)

\* The outcomes of random.shuffle(l): every order of the elements of l.
Shuffles(l) ==
    {[i \in DOMAIN l |-> l[f[i]]] :
        f \in {g \in [DOMAIN l -> DOMAIN l] :
                 \A a, b \in DOMAIN l : g[a] = g[b] => a = b}}

\* The names a directory can hold.
Names ==
    { TestPrefix \o <<"1">> \o JsonSuffix,
      <<"1">> \o JsonSuffix,
      <<"2">> \o JsonSuffix,
      <<"1">> \o TestPrefix \o JsonSuffix,
      TestPrefix \o <<"1", ".", "t", "x", "t">> }

Listings ==
    {l \in SeqsUpTo(Names, MaxDirFiles) :
        \A a, b \in DOMAIN l : l[a] = l[b] => a = b}

\* What a '.json' file of the directory can hold: a record that is written,
\* malformed JSON, and a document that is a list.
DirContents ==
    { Json(JDict(<<<<"ciphertext", JStr(<<"2", " ", "1", " ", "2">>)>>,
                   <<"plaintext", JStr(<<"a", "b">>)>>>>)),
      Malformed,
      Json(JList) }

\* What the other files hold, which fairseq_data never opens.
Unread == Undecodable

ContentsOf(l) ==
    {[i \in DOMAIN l |-> IF endswith(l[i], JsonSuffix) THEN c[i] ELSE Unread] :
        c \in [DOMAIN l -> DirContents]}

\* The values of validation_split: -0.5, the default 0.02, 0.5, 1.5.
Splits ==
    {[num |-> 0 - 1, den |-> 2], [num |-> 1, den |-> 50],
     [num |-> 1, den |-> 2], [num |-> 3, den |-> 2]}

\* What the file at a path of the directory holds.
held_by(path) ==
    contents[CHOOSE i \in DOMAIN listing :
                 path_join(input_data_dir, listing[i]) = path]

\* os.path.join(output_dir, f"{prefix}.src") and its .tgt, as names.
src_name(prefix) == prefix \o ".src"

tgt_name(prefix) == prefix \o ".tgt"

\* The prefix and the list of each of the calls of lines 74-76, in order.
call_plan ==
    <<[prefix |-> "train", file_list |-> train_files],
      [prefix |-> "valid", file_list |-> valid_files],
      [prefix |-> "test", file_list |-> test_files]>>

SplitStart ==
    /\ listing \in Listings
    /\ contents \in ContentsOf(listing)
    /\ validation_split \in Splits
    /\ all_train_files = <<>> /\ test_files = <<>> /\ valid_files = <<>>
    /\ train_files = <<>> /\ fpc = "start" /\ calls = <<>>
    /\ output_dir = <<>>

InitSplit == EncIdle /\ PipeIdle /\ SplitStart

\* Lines 47-61: the scan of the directory, and the return when it holds no
\* '.json' file.
Scan ==
    /\ fpc = "start"
    /\ LET r == scan(listing)
       IN  /\ all_train_files' = r.all_train_files
           /\ test_files' = r.test_files
           /\ fpc' = IF r.all_train_files = <<>> /\ r.test_files = <<>>
                     THEN "returned_no_files" ELSE "scanned"
    /\ UNCHANGED <<listing, contents, validation_split, valid_files,
                   train_files, calls, output_dir, encVars, pipeVars>>

\* Lines 63-67: the shuffle and the split at split_index.
ShuffleAndSplit ==
    /\ fpc = "scanned"
    /\ \E shuffled \in Shuffles(all_train_files) :
          LET split_index == int_trunc(Len(shuffled) * validation_split.num,
                                       validation_split.den)
          IN  /\ all_train_files' = shuffled
              /\ valid_files' = slice_to(shuffled, split_index)
              /\ train_files' = slice_from(shuffled, split_index)
    /\ fpc' = "split"
    /\ UNCHANGED <<listing, contents, validation_split, test_files, calls,
                   output_dir, encVars, pipeVars>>

\* Lines 74-76, one call at a time: the next call of
\* write_aggregated_files, run to its end.  It leaves its two files in the
\* output directory and prints its warnings, which follow those of the
\* calls before it; an exception it ends in ends fairseq_data, and the
\* calls after it are not made.
WriteCall ==
    /\ fpc = "split"
    /\ Len(calls) < Len(call_plan)
    /\ LET call == call_plan[Len(calls) + 1]
           run == write_aggregated_files(
                      [i \in DOMAIN call.file_list |-> held_by(call.file_list[i])])
       IN  /\ calls' = Append(calls, call)
           /\ output_dir' = output_dir \o
                  <<[name |-> src_name(call.prefix), data |-> run.f_cipher],
                    [name |-> tgt_name(call.prefix), data |-> run.f_plain]>>
           /\ warnings' = warnings \o run.warnings
           /\ fpc' = IF run.exc # "none" THEN "raised"
                     ELSE IF Len(calls) + 1 = Len(call_plan) THEN "written"
                     ELSE "split"
    /\ UNCHANGED <<listing, contents, validation_split, all_train_files,
                   test_files, valid_files, train_files, encVars, file_list,
                   pos, f_cipher, f_plain, wpc>>

NextSplit == Scan \/ ShuffleAndSplit \/ WriteCall

\* One run of fairseq_data on any directory.
SpecSplit == InitSplit /\ [][NextSplit]_vars

----------------------------------------------------------------------------
(* What the claims about freq_enc speak of, stated apart from the code.    *)

\* The tokens of the input: the maximal runs of non-whitespace characters.
IsTokenAt(s, i, j) ==
    /\ i <= j
    /\ \A k \in i..j : s[k] \notin Whitespace
    /\ (i = 1 \/ s[i - 1] \in Whitespace)
    /\ (j = Len(s) \/ s[j + 1] \in Whitespace)

TokenStarts(s) == {i \in DOMAIN s : \E j \in i..Len(s) : IsTokenAt(s, i, j)}

HasNoTokens(s) == \A i \in DOMAIN s : s[i] \in Whitespace

\* How often token a occurs in T, and the 0-based index where it first does.
CountIn(T, a) == Cardinality({i \in DOMAIN T : T[i] = a})

FirstIn(T, a) ==
    (CHOOSE i \in DOMAIN T : T[i] = a /\ \A j \in 1..(i - 1) : T[j] # a) - 1

\* a is ranked before b by the key (-count, first occurrence).
Before(T, a, b) ==
    \/ CountIn(T, a) > CountIn(T, b)
    \/ CountIn(T, a) = CountIn(T, b) /\ FirstIn(T, a) < FirstIn(T, b)

\* s.split(" "): the pieces between single spaces, empty ones kept.
RECURSIVE pieces_from(_, _, _, _)
pieces_from(s, i, cur, acc) ==
    IF i > Len(s) THEN Append(acc, cur)
    ELSE IF s[i] = " " THEN pieces_from(s, i + 1, <<>>, Append(acc, cur))
    ELSE pieces_from(s, i + 1, Append(cur, s[i]), acc)

Pieces(s) == pieces_from(s, 1, <<>>, <<>>)

IsDecimal(s) == s # <<>> /\ \A i \in DOMAIN s : s[i] \in Range(Digits)

DigitValue(c) == (CHOOSE d \in DOMAIN Digits : Digits[d] = c) - 1

\* int(s) of a decimal s.
RECURSIVE ParseInt(_)
ParseInt(s) ==
    IF s = <<>> THEN 0
    ELSE 10 * ParseInt(SubSeq(s, 1, Len(s) - 1)) + DigitValue(s[Len(s)])

Returned == pc = "returned"

----------------------------------------------------------------------------
(* Claims about freq_enc, checked under Spec.                              *)

\* The tokens of the input as the claims count them: one per token start.
InputTokenCount == Cardinality(TokenStarts(text))

\* The integers of the output, when it is made of decimals split by " ".
OutputInts == [i \in DOMAIN Pieces(result) |-> ParseInt(Pieces(result)[i])]

\* C1: for every two distinct tokens a and b of the input, rank(a) < rank(b)
\* exactly when count(a) > count(b), or the counts are equal and a first
\* occurs before b; so rank 0 is the token of maximal count, and among
\* those of maximal count the one that occurs first.
C1_RankOrder ==
    (Returned /\ tokens # <<>>) =>
        /\ DOMAIN char_to_rank_id = Range(tokens)
        /\ \A a, b \in Range(tokens) :
              a # b => ((char_to_rank_id[a] < char_to_rank_id[b])
                            <=> Before(tokens, a, b))
        /\ \A a \in Range(tokens) :
              char_to_rank_id[a] = 0 =>
                  \A b \in Range(tokens) :
                      /\ CountIn(tokens, a) >= CountIn(tokens, b)
                      /\ CountIn(tokens, a) = CountIn(tokens, b)
                            => FirstIn(tokens, a) <= FirstIn(tokens, b)

\* A call returned where a later token outranks an earlier one by count,
\* and where a tie is broken against the order of the token values.
C1_Witness ==
    /\ Returned
    /\ \E a, b \in Range(tokens) :
          /\ CountIn(tokens, a) > CountIn(tokens, b)
          /\ FirstIn(tokens, a) > FirstIn(tokens, b)
          /\ char_to_rank_id[a] < char_to_rank_id[b]
    /\ \E a, b \in Range(tokens) :
          /\ a # b
          /\ CountIn(tokens, a) = CountIn(tokens, b)
          /\ FirstIn(tokens, a) < FirstIn(tokens, b)
          /\ str_lt(b, a)
          /\ char_to_rank_id[a] < char_to_rank_id[b]

\* C5: for an input of n >= 1 tokens the output is exactly n decimal
\* integers separated by single spaces, the i-th being the rank of the i-th
\* token; equal tokens get equal ranks, order and length are kept.
C5_OneRankPerToken ==
    (pc # "ready" /\ InputTokenCount >= 1) =>
        /\ Returned
        /\ Len(tokens) = InputTokenCount
        /\ Len(Pieces(result)) = InputTokenCount
        /\ \A i \in DOMAIN Pieces(result) :
              /\ IsDecimal(Pieces(result)[i])
              /\ tokens[i] \in DOMAIN char_to_rank_id
              /\ OutputInts[i] = char_to_rank_id[tokens[i]]
        /\ \A i, j \in DOMAIN tokens :
              tokens[i] = tokens[j] => Pieces(result)[i] = Pieces(result)[j]

\* A call returned on an input with a repeated token and a two-digit rank.
C5_Witness ==
    /\ Returned
    /\ \E i, j \in DOMAIN tokens : i < j /\ tokens[i] = tokens[j]
    /\ \E i \in DOMAIN Pieces(result) : Len(Pieces(result)[i]) = 2
    /\ Len(Pieces(result)) = Len(tokens)

\* C6: for an input of d >= 1 distinct tokens the rank table is a bijection
\* from the distinct tokens onto 0..d-1, the values of the output are
\* exactly 0..d-1, and each rank occurs in the output as often as its
\* token occurs in the input.
C6_RankBijection ==
    (Returned /\ tokens # <<>>) =>
        LET d == Cardinality(Range(tokens))
        IN  /\ DOMAIN char_to_rank_id = Range(tokens)
            /\ {char_to_rank_id[t] : t \in Range(tokens)} = 0..(d - 1)
            /\ \A a, b \in Range(tokens) :
                  char_to_rank_id[a] = char_to_rank_id[b] => a = b
            /\ \A i \in DOMAIN Pieces(result) : IsDecimal(Pieces(result)[i])
            /\ Range(OutputInts) = 0..(d - 1)
            /\ \A t \in Range(tokens) :
                  Cardinality({i \in DOMAIN OutputInts :
                                  OutputInts[i] = char_to_rank_id[t]})
                      = CountIn(tokens, t)

\* A call returned on an input of at least three distinct tokens, one of
\* them repeated.
C6_Witness ==
    /\ Returned
    /\ Cardinality(Range(tokens)) >= 3
    /\ \E t \in Range(tokens) : CountIn(tokens, t) >= 2
    /\ Range(OutputInts) = 0..(Cardinality(Range(tokens)) - 1)

\* C7: freq_enc returns on every input string and never ends in an error;
\* on an input without tokens (empty, or whitespace only) it returns "".
C7_Total ==
    (pc # "ready") =>
        /\ Returned
        /\ exc = "none"
        /\ HasNoTokens(text) => result = <<>>

\* A call returned "" on a non-empty input made of whitespace only.
C7_Witness ==
    /\ Returned
    /\ text # <<>>
    /\ HasNoTokens(text)
    /\ result = <<>>

\* C9: the first-occurrence index is defined for every distinct token and
\* differs between any two of them, so (-count, first occurrence) orders
\* the sorted tuples by itself: no two tuples agree on it, and sorting with
\* the token values compared the other way round gives the same list and
\* the same ranks.
C9_TokenNeverDecides ==
    (Returned /\ tokens # <<>>) =>
        LET data == rank_data(keys(tokens), counts, first_occurrence_order)
        IN  /\ DOMAIN first_occurrence_order = Range(tokens)
            /\ \A a, b \in Range(tokens) :
                  first_occurrence_order[a] = first_occurrence_order[b]
                      => a = b
            /\ \A i, j \in DOMAIN char_rank_data :
                  i # j => <<char_rank_data[i][1], char_rank_data[i][2]>>
                               # <<char_rank_data[j][1], char_rank_data[j][2]>>
            /\ sort_with(data, "gt") = char_rank_data
            /\ rank_table(sort_with(data, "gt")) = char_to_rank_id

\* A call returned where two tokens of equal count are ranked against the
\* order of their values.
C9_Witness ==
    /\ Returned
    /\ \E i, j \in DOMAIN char_rank_data :
          /\ i < j
          /\ char_rank_data[i][1] = char_rank_data[j][1]
          /\ str_lt(char_rank_data[j][3], char_rank_data[i][3])

----------------------------------------------------------------------------
(* The claim about sequences of calls, checked under SpecCalls.            *)

\* C8: in any sequence of calls, two calls of freq_enc on the same input
\* return the same output, whatever was encoded in between.
C8_SameInputSameOutput ==
    (Returned /\ memo.set /\ memo.input = text) => result = memo.output

\* A call returned on the input of a noted earlier call, with a call on
\* another input between the two.
C8_Witness ==
    /\ Returned
    /\ memo.set
    /\ memo.between
    /\ memo.input = text
    /\ tokens # <<>>
    /\ result = memo.output

----------------------------------------------------------------------------
(* Claims about write_aggregated_files, checked under SpecPipe.            *)

\* The characters of an output file, each with the record it was written for.
RECURSIVE Flat(_)
Flat(file) ==
    IF file = <<>> THEN <<>>
    ELSE [i \in DOMAIN file[1].data |-> [ch |-> file[1].data[i], rec |-> file[1].rec]]
            \o Flat(Tail(file))

\* The complete lines of an output file: for each the records it comes from.
RECURSIVE origins_from(_, _, _, _)
origins_from(flat, i, cur, acc) ==
    IF i > Len(flat) THEN acc
    ELSE IF flat[i].ch = "\n"
         THEN origins_from(flat, i + 1, {}, Append(acc, cur \cup {flat[i].rec}))
         ELSE origins_from(flat, i + 1, cur \cup {flat[i].rec}, acc)

LineOrigins(file) == origins_from(Flat(file), 1, {}, <<>>)

\* The file ends in a line that no "\n" closes.
HasPartialLine(file) ==
    Flat(file) # <<>> /\ Flat(file)[Len(Flat(file))].ch # "\n"

\* The parsed document has no field of that name, whatever its shape.
LacksField(doc, key) ==
    \/ doc.type # "dict"
    \/ \A m \in DOMAIN doc.value : doc.value[m][1] # key

\* The records the claims call bad: not parseable, or parsed to a document
\* without the 'ciphertext' or the 'plaintext' field.
BadRecord(content) ==
    \/ content.kind \in {"undecodable", "malformed"}
    \/ /\ content.kind = "json"
       /\ LacksField(content.data, "ciphertext") \/ LacksField(content.data, "plaintext")

\* A record with both fields, each a string.
WellFormed(content) ==
    /\ content.kind = "json"
    /\ content.data.type = "dict"
    /\ \E m \in DOMAIN content.data.value :
          content.data.value[m][1] = "ciphertext" /\ content.data.value[m][2].type = "str"
    /\ \E m \in DOMAIN content.data.value :
          content.data.value[m][1] = "plaintext" /\ content.data.value[m][2].type = "str"

HasLineOf(file, i) == \E k \in DOMAIN LineOrigins(file) : i \in LineOrigins(file)[k]

\* C2: after each record, and whenever write_aggregated_files stops, the
\* .src and the .tgt file hold the same number of lines, and line k of the
\* one and line k of the other come from the same record.
C2_LinesCorrespond ==
    (wpc \in {"loop", "done", "raised"}) => LineOrigins(f_cipher) = LineOrigins(f_plain)

\* C3: a record that is not parseable, or whose document lacks the
\* 'ciphertext' or the 'plaintext' field, leaves both files exactly as they
\* were before it was read.
C3_BadRecordWritesNothing ==
    [][(wpc = "loop" /\ pos < Len(file_list) /\ BadRecord(file_list[pos + 1]))
          => (f_cipher' = f_cipher /\ f_plain' = f_plain)]_vars

\* The loop went past a record with a ciphertext and no plaintext, after a
\* record that was written: both files hold that earlier record alone.
C3_Witness ==
    /\ pos = 2
    /\ wpc = "loop"
    /\ BadRecord(file_list[2])
    /\ ~LacksField(file_list[2].data, "ciphertext")
    /\ getitem(file_list[2].data, "ciphertext").type = "str"
    /\ Len(f_cipher) = 1 /\ f_cipher[1].rec = 1
    /\ Len(f_plain) = 1 /\ f_plain[1].rec = 1
    /\ ~HasPartialLine(f_cipher) /\ ~HasPartialLine(f_plain)

\* C4: no error on one record is fatal: when write_aggregated_files stops
\* it has reached the end of the list, and every well-formed record has its
\* line in both files.
C4_NoErrorFatal ==
    (wpc \in {"done", "raised"}) =>
        /\ pos = Len(file_list)
        /\ \A i \in DOMAIN file_list :
              WellFormed(file_list[i]) => HasLineOf(f_cipher, i) /\ HasLineOf(f_plain, i)

----------------------------------------------------------------------------
(* The claim about fairseq_data, checked under SpecSplit.                  *)

\* The name of a path: what follows its last "/".
NameOf(path) ==
    LET k == CHOOSE j \in DOMAIN path :
                path[j] = "/" /\ \A m \in (j + 1)..Len(path) : path[m] # "/"
    IN  SubSeq(path, k + 1, Len(path))

\* name = affix + something, something + affix.
HasPrefix(name, affix) == \E k \in 0..Len(name) : name = affix \o SubSeq(name, k + 1, Len(name))

HasSuffix(name, affix) == \E k \in 0..Len(name) : name = SubSeq(name, 1, k) \o affix

JsonPaths == {path_join(input_data_dir, listing[i]) :
                 i \in {j \in DOMAIN listing : HasSuffix(listing[j], JsonSuffix)}}

NoRepeat(l) == \A a, b \in DOMAIN l : l[a] = l[b] => a = b

\* The calls of write_aggregated_files that the lists are meant for.
ExpectedCalls ==
    <<[prefix |-> "train", file_list |-> train_files],
      [prefix |-> "valid", file_list |-> valid_files],
      [prefix |-> "test", file_list |-> test_files]>>

\* C10: the train, valid and test lists are pairwise disjoint and together
\* hold each '.json' file of the directory exactly once; a file is in the
\* test list exactly when its name starts with 'test-cipher-'; no file
\* without the '.json' suffix is in any list; and the calls of
\* write_aggregated_files that are made are made with these lists.
C10_ListsPartition ==
    (fpc \in {"split", "written", "raised"}) =>
        /\ Range(train_files) \cap Range(valid_files) = {}
        /\ Range(train_files) \cap Range(test_files) = {}
        /\ Range(valid_files) \cap Range(test_files) = {}
        /\ NoRepeat(train_files) /\ NoRepeat(valid_files) /\ NoRepeat(test_files)
        /\ Range(train_files) \cup Range(valid_files) \cup Range(test_files) = JsonPaths
        /\ \A p \in JsonPaths :
              p \in Range(test_files) <=> HasPrefix(NameOf(p), TestPrefix)
        /\ \A p \in Range(train_files) \cup Range(valid_files) \cup Range(test_files) :
              HasSuffix(NameOf(p), JsonSuffix)
        /\ Len(calls) <= 3
        /\ \A k \in DOMAIN calls : calls[k] = ExpectedCalls[k]
        /\ fpc = "written" => Len(calls) = 3

\* fairseq_data made its three calls with no list empty, after a shuffle
\* that changed the order of the scan.
C10_Witness ==
    /\ fpc = "written"
    /\ Len(calls) = 3
    /\ train_files # <<>> /\ valid_files # <<>> /\ test_files # <<>>
    /\ all_train_files # [j \in DOMAIN all_train_files |->
                             scan(listing).all_train_files[j]]

====
